---- MODULE Spec2Model ----
(***************************************************************************)
(* State-machine model of autolineage: the SQLite provenance store         *)
(* (database.py), the DatasetTracker read/write heuristic and the manual   *)
(* declaration paths (tracker.py), and the graph statistics (graph.py).    *)
(***************************************************************************)
EXTENDS Integers, Sequences, FiniteSets, TLC

VARIABLES
    fs,             \* the file system: absolute path -> file state
    datasets,       \* rows of table datasets, in insertion order
    operations,     \* rows of table operations, in insertion order
    lineage,        \* rows of table lineage, in insertion order
    tracked_files,  \* DatasetTracker.tracked_files: abs path -> dataset id
    recent_reads,   \* DatasetTracker.recent_reads
    recent_writes,  \* DatasetTracker.recent_writes
    nextId,         \* the next fresh identifier uuid.uuid4() hands out
    runs,           \* rows of table runs, in insertion order
    current_run_id, \* DatasetTracker.current_run_id
    db_open,        \* the tracker's sqlite connection is open
    objs,           \* the DatasetTracker objects made after the first one
    clock,          \* the wall clock, in seconds
    trackers,       \* number of DatasetTracker objects constructed so far
    auto_tracker,   \* auto._auto_tracker: None or the tracker object
    hook_tracker,   \* hooks._tracker: None or the tracker object
    original_functions, \* hooks._original_functions: the keys saved
    bound,          \* library attribute -> what it is bound to
    graph,          \* the LineageGraph object: its DiGraph and _built
    log             \* history: the calls made so far with their outcome

vars == <<fs, datasets, operations, lineage, tracked_files, recent_reads,
          recent_writes, nextId, runs, current_run_id, db_open, objs, clock,
          trackers,
          auto_tracker, hook_tracker, original_functions, bound, graph, log>>

\* what the tracker and store calls below never touch
sessionVars == <<objs, clock, trackers, auto_tracker, hook_tracker,
                 original_functions, bound, graph>>

(***************************************************************************)
(* Bounds                                                                  *)
(***************************************************************************)
MaxEvents == 4      \* calls and file changes per behaviour of Spec
MaxCalls == 2       \* calls per behaviour of SpecManual
MaxDeclareCalls == 3 \* calls per behaviour of SpecDeclare
MaxStoreCalls == 3  \* calls per behaviour of SpecStore
MaxSessionCalls == 4 \* calls per behaviour of SpecSession
MaxOrderCalls == 5  \* calls per behaviour of SpecOrder
MaxClock == 2       \* seconds the clock advances in SpecOrder
MaxGraphCalls == 5  \* calls per behaviour of SpecGraph
MaxRoundTripCalls == 4 \* calls per behaviour of SpecRoundTrip
MaxPipelineEvents == 4 \* events per behaviour of SpecPipelines
MaxHookCalls == 3   \* calls per behaviour of SpecHooks

(***************************************************************************)
(* Paths and files                                                         *)
(***************************************************************************)
A == "/d1/a.csv"
B == "/d1/b.csv"
C == "/d1/c.csv"
D == "/d2/a.csv"
RelA == "a.csv"             \* a relative spelling of A (cwd is /d1)

Files == {A, B, C, D}       \* the absolute paths of the file system

\* str(Path(filepath).absolute()): a relative path is joined to the cwd.
absolute(filepath) == IF filepath = RelA THEN A ELSE filepath

Content1 == <<97, 10>>          \* two byte strings a file can hold
Content2 == <<97, 10, 98, 10>>

None == 0                   \* Python's None where an id is expected
NoHash == <<>>              \* Python's None where a digest is expected

MissingFile == [exists |-> FALSE, readable |-> FALSE, content |-> <<>>]
NewFile(c) == [exists |-> TRUE, readable |-> TRUE, content |-> c]

\* hashlib.sha256 over the whole byte stream; None when open/read raises.
hash_file(fsys, filepath) ==
    LET f == IF absolute(filepath) \in DOMAIN fsys THEN fsys[absolute(filepath)]
             ELSE MissingFile
    IN  IF f.exists /\ f.readable THEN <<"sha256", f.content>> ELSE NoHash
\* mutant: the "if not path.exists()" test is gone
get_file_info_unchecked(fsys, filepath) ==
    [found |-> TRUE, filepath |-> absolute(filepath),
     size |-> Len(fsys[absolute(filepath)].content),
     hash |-> hash_file(fsys, filepath)]

get_file_info(fsys, filepath) ==
    LET ap == absolute(filepath)
        f  == IF ap \in DOMAIN fsys THEN fsys[ap] ELSE MissingFile
    IN  IF ~f.exists
        THEN [found |-> FALSE, filepath |-> ap, size |-> 0, hash |-> NoHash]
        ELSE [found |-> TRUE, filepath |-> ap, size |-> Len(f.content),
              hash |-> hash_file(fsys, filepath)]

(***************************************************************************)
(* The store (LineageDatabase).  Every operator maps a state record to the *)
(* state after the call; exc names the exception the call raised and ret   *)
(* its return value.  An operator applied to a state that already carries  *)
(* an exception leaves it alone: the exception is propagating.             *)
(***************************************************************************)
\* "first v, then F with its result": one statement after another
Then(v, F(_)) == CHOOSE r \in {F(x) : x \in {v}} : TRUE

ForeignKeys == FALSE    \* sqlite3.connect without PRAGMA foreign_keys=ON

DatasetIds(s) == {s.datasets[i].id : i \in 1..Len(s.datasets)}
OperationIds(s) == {s.operations[i].id : i \in 1..Len(s.operations)}

add_dataset(s, filepath, file_hash, size) ==
    IF s.exc # "none" THEN s
    ELSE IF ~s.db_open THEN [s EXCEPT !.exc = "ProgrammingError"]
    ELSE IF file_hash = NoHash          \* hash TEXT NOT NULL
    THEN [s EXCEPT !.exc = "IntegrityError"]
    ELSE [s EXCEPT !.datasets = Append(@, [id |-> s.nextId,
                                           filepath |-> filepath,
                                           hash |-> file_hash,
                                           size |-> size,
                                           created_at |-> s.now]),
                   !.nextId = @ + 1,
                   !.ret = s.nextId]

add_operation(s, operation_type, function_name) ==
    IF s.exc # "none" THEN s
    ELSE IF ~s.db_open THEN [s EXCEPT !.exc = "ProgrammingError"]
    ELSE [s EXCEPT !.operations = Append(@, [id |-> s.nextId,
                                        operation_type |-> operation_type,
                                        function_name |-> function_name,
                                        executed_at |-> s.now]),
                   !.nextId = @ + 1,
                   !.ret = s.nextId]

add_lineage(s, source_id, target_id, operation_id, relationship_type) ==
    IF s.exc # "none" THEN s
    ELSE IF ~s.db_open THEN [s EXCEPT !.exc = "ProgrammingError"]
    ELSE IF ForeignKeys /\ ~(/\ source_id \in DatasetIds(s)
                             /\ target_id \in DatasetIds(s)
                             /\ operation_id \in OperationIds(s))
    THEN [s EXCEPT !.exc = "IntegrityError"]
    ELSE [s EXCEPT !.lineage = Append(@, [id |-> s.nextId,
                                     source_id |-> source_id,
                                     target_id |-> target_id,
                                     operation_id |-> operation_id,
                                     relationship_type |-> relationship_type,
                                     created_at |-> s.now]),
                   !.nextId = @ + 1,
                   !.ret = s.nextId]

(***************************************************************************)
(* DatasetTracker                                                          *)
(***************************************************************************)
InSeq(x, q) == \E i \in 1..Len(q) : q[i] = x

\* "abs_path in self.tracked_files"
is_tracked(s, abs_path) == abs_path \in DOMAIN s.tracked_files

\* mutant: the new id is never cached
cache_put_forgets(s, abs_path, dataset_id) == s

\* "self.tracked_files[abs_path] = dataset_id"
cache_put(s, abs_path, dataset_id) ==
    [s EXCEPT !.tracked_files =
        [p \in (DOMAIN @) \cup {abs_path} |->
            IF p = abs_path THEN dataset_id ELSE @[p]]]

\* mutant: a cached path is appended to recent_reads without the check
read_is_new_unchecked(s, abs_path) == TRUE

\* "abs_path not in self.recent_reads" of the cache-hit branch
read_is_new(s, abs_path) == ~InSeq(abs_path, s.recent_reads)

\* "abs_path not in self.recent_writes" of the cache-hit branch
write_is_new(s, abs_path) == ~InSeq(abs_path, s.recent_writes)

\* dict.get: the cached id, or None
cache_get(s, path) ==
    IF path \in DOMAIN s.tracked_files THEN s.tracked_files[path] ELSE None

\* mutant: only the first pending read is linked
link_reads_first_only(s, reads, output_id, operation_id) ==
    IF reads = <<>> THEN s
    ELSE add_lineage(s, cache_get(s, Head(reads)), output_id, operation_id,
                     "derived_from")

\* the loop of _auto_create_lineage over recent_reads
RECURSIVE link_reads(_, _, _, _)
link_reads(s, reads, output_id, operation_id) ==
    IF reads = <<>> THEN s
    ELSE LET input_id == cache_get(s, Head(reads))
         IN  Then(IF input_id # None
                  THEN add_lineage(s, input_id, output_id, operation_id,
                                   "derived_from")
                  ELSE s,
                  LAMBDA s1 : link_reads(s1, Tail(reads), output_id, operation_id))
\* mutant: the pending reads stay after the write was linked
auto_create_lineage_keeps_window(s, output_file, caller) ==
    IF s.exc # "none" THEN s
    ELSE IF s.recent_reads = <<>> THEN s
    ELSE Then(add_operation(s, "transform", caller), LAMBDA s1 :
         LET operation_id == s1.ret
             output_id == cache_get(s1, output_file)
         IN  IF output_id # None
             THEN link_reads(s1, s1.recent_reads, output_id, operation_id)
             ELSE s1)

auto_create_lineage(s, output_file, caller) ==
    IF s.exc # "none" THEN s
    ELSE IF s.recent_reads = <<>> THEN s
    ELSE Then(add_operation(s, "transform", caller), LAMBDA s1 :
         LET operation_id == s1.ret
             output_id == cache_get(s1, output_file)
         IN  Then(IF output_id # None
                  THEN link_reads(s1, s1.recent_reads, output_id, operation_id)
                  ELSE s1,
                  LAMBDA s2 : IF s2.exc # "none" THEN s2
                              ELSE [s2 EXCEPT !.recent_reads = <<>>]))

track_file(s, fsys, filepath, operation_type, caller) ==
    IF s.exc # "none" THEN s
    ELSE
    LET file_info == get_file_info(fsys, filepath)
        abs_path == file_info.filepath
    IN  IF ~file_info.found THEN [s EXCEPT !.ret = None]
        ELSE IF is_tracked(s, abs_path)
        THEN LET existing_id == s.tracked_files[abs_path]
             IN  Then(IF operation_type = "read"
                      THEN IF read_is_new(s, abs_path)
                           THEN [s EXCEPT !.recent_reads = Append(@, abs_path)]
                           ELSE s
                      ELSE IF operation_type = "write"
                      THEN IF write_is_new(s, abs_path)
                           THEN auto_create_lineage(
                                  [s EXCEPT !.recent_writes = Append(@, abs_path)],
                                  abs_path, caller)
                           ELSE s
                      ELSE s,
                      LAMBDA s1 : IF s1.exc # "none" THEN s1
                                  ELSE [s1 EXCEPT !.ret = existing_id])
        ELSE Then(add_dataset(s, abs_path, file_info.hash, file_info.size),
             LAMBDA s1 :
             IF s1.exc # "none" THEN s1
             ELSE LET dataset_id == s1.ret
                  IN  Then(cache_put(s1, abs_path, dataset_id), LAMBDA s2 :
                      Then(IF operation_type = "read"
                           THEN [s2 EXCEPT !.recent_reads = Append(@, abs_path)]
                           ELSE IF operation_type = "write"
                           THEN auto_create_lineage(
                                  [s2 EXCEPT !.recent_writes = Append(@, abs_path)],
                                  abs_path, caller)
                           ELSE s2,
                           LAMBDA s3 : IF s3.exc # "none" THEN s3
                                       ELSE [s3 EXCEPT !.ret = dataset_id])))

\* the two loops of track_transformation over source_files / target_files:
\* the state after them and the ids of the files that could be tracked
RECURSIVE track_all(_, _, _, _, _, _)
track_all(s, fsys, files, operation_type, caller, acc) ==
    IF s.exc # "none" \/ files = <<>> THEN [state |-> s, ids |-> acc]
    ELSE Then(track_file(s, fsys, Head(files), operation_type, caller),
              LAMBDA s1 :
              track_all(s1, fsys, Tail(files), operation_type, caller,
                        IF s1.exc = "none" /\ s1.ret # None
                        THEN Append(acc, s1.ret) ELSE acc))

\* the inner loop "for target_id in target_ids" of track_transformation
RECURSIVE link_targets(_, _, _, _)
link_targets(s, source_id, target_ids, operation_id) ==
    IF target_ids = <<>> THEN s
    ELSE Then(add_lineage(s, source_id, Head(target_ids), operation_id,
                          "derived_from"),
              LAMBDA s1 : link_targets(s1, source_id, Tail(target_ids),
                                       operation_id))

\* the outer loop "for source_id in source_ids" of track_transformation
RECURSIVE link_sources(_, _, _, _)
link_sources(s, source_ids, target_ids, operation_id) ==
    IF source_ids = <<>> THEN s
    ELSE Then(link_targets(s, Head(source_ids), target_ids, operation_id),
              LAMBDA s1 : link_sources(s1, Tail(source_ids), target_ids,
                                       operation_id))

track_transformation(s, fsys, source_files, target_files, function_name, caller) ==
    Then(track_all(s, fsys, source_files, "read", caller, <<>>), LAMBDA r1 :
    Then(track_all(r1.state, fsys, target_files, "write", caller, <<>>), LAMBDA r2 :
    Then(add_operation(r2.state, "transform", function_name), LAMBDA s3 :
    Then(link_sources(s3, r1.ids, r2.ids, s3.ret), LAMBDA s4 :
         IF s4.exc # "none" THEN s4 ELSE [s4 EXCEPT !.ret = s3.ret]))))

\* mutant: the edge is added without testing the two ids
exit_link_unchecked(s, input_id, output_id, operation_id) ==
    add_lineage(s, input_id, output_id, operation_id, "derived_from")

\* "if input_id and output_id: add_lineage(...)" of LineageContext.__exit__
exit_link(s, input_id, output_id, operation_id) ==
    IF s.exc # "none" THEN s
    ELSE IF input_id # None /\ output_id # None
    THEN add_lineage(s, input_id, output_id, operation_id, "derived_from")
    ELSE s

\* the inner loop "for output_file in self.outputs" of __exit__
RECURSIVE exit_outputs(_, _, _, _, _, _)
exit_outputs(s, fsys, input_id, outputs, operation_id, caller) ==
    IF s.exc # "none" \/ outputs = <<>> THEN s
    ELSE Then(track_file(s, fsys, Head(outputs), "write", caller), LAMBDA s1 :
         Then(exit_link(s1, input_id, s1.ret, operation_id), LAMBDA s2 :
              exit_outputs(s2, fsys, input_id, Tail(outputs), operation_id,
                           caller)))

\* the outer loop "for input_file in self.inputs" of __exit__
RECURSIVE exit_inputs(_, _, _, _, _, _)
exit_inputs(s, fsys, inputs, outputs, operation_id, caller) ==
    IF s.exc # "none" \/ inputs = <<>> THEN s
    ELSE Then(track_file(s, fsys, Head(inputs), "read", caller), LAMBDA s1 :
         Then(exit_outputs(s1, fsys, s1.ret, outputs, operation_id, caller),
              LAMBDA s2 :
              exit_inputs(s2, fsys, Tail(inputs), outputs, operation_id, caller)))

\* mutant: __exit__ records the operation whatever exc_type is
context_exit_unguarded(s, fsys, operation_type, function_name, inputs, outputs, body_raised, caller) ==
    Then(add_operation(s, operation_type, function_name), LAMBDA s1 :
    Then(exit_inputs(s1, fsys, inputs, outputs, s1.ret, caller), LAMBDA s2 :
         IF s2.exc # "none" THEN s2
         ELSE IF body_raised THEN [s2 EXCEPT !.exc = "BodyError"]
         ELSE [s2 EXCEPT !.ret = s1.ret]))

\* LineageContext.__exit__ for a context whose body called add_input for
\* inputs and add_output for outputs; body_raised is "exc_type is not None"
context_exit(s, fsys, operation_type, function_name, inputs, outputs, body_raised, caller) ==
    IF body_raised THEN [s EXCEPT !.exc = "BodyError"]
    ELSE Then(add_operation(s, operation_type, function_name), LAMBDA s1 :
         Then(exit_inputs(s1, fsys, inputs, outputs, s1.ret, caller), LAMBDA s2 :
              IF s2.exc # "none" THEN s2 ELSE [s2 EXCEPT !.ret = s1.ret]))

(***************************************************************************)
(* Queries                                                                 *)
(***************************************************************************)
RowsWithId(rows, id) == SelectSeq(rows, LAMBDA r : r.id = id)

\* ORDER BY: the positions of the rows in the order of their keys; rows with
\* equal keys stay in insertion order, as SQLite returns them
RECURSIVE InsertIndex(_, _, _, _)
InsertIndex(q, i, keys, desc) ==
    IF q = <<>> THEN <<i>>
    ELSE IF (IF desc THEN keys[i] > keys[Head(q)] ELSE keys[i] < keys[Head(q)])
    THEN <<i>> \o q
    ELSE <<Head(q)>> \o InsertIndex(Tail(q), i, keys, desc)

RECURSIVE OrderIndices(_, _, _)
OrderIndices(n, keys, desc) ==
    IF n = 0 THEN <<>>
    ELSE InsertIndex(OrderIndices(n - 1, keys, desc), n, keys, desc)

OrderBy(rows, keys, desc) ==
    LET idx == OrderIndices(Len(rows), keys, desc)
    IN  [k \in 1..Len(rows) |-> rows[idx[k]]]

\* mutant: ORDER BY created_at without DESC
get_all_datasets_ascending(s) ==
    OrderBy(s.datasets, [i \in 1..Len(s.datasets) |-> s.datasets[i].created_at],
            FALSE)

\* SELECT * FROM datasets ORDER BY created_at DESC
get_all_datasets(s) ==
    OrderBy(s.datasets, [i \in 1..Len(s.datasets) |-> s.datasets[i].created_at],
            TRUE)

\* SELECT * FROM operations ORDER BY executed_at DESC
get_all_operations(s) ==
    OrderBy(s.operations,
            [i \in 1..Len(s.operations) |-> s.operations[i].executed_at], TRUE)
\* mutant: d1 joined on the target id and d2 on the source id
get_lineage_graph_swapped(s) ==
    LET Resolves(l) == /\ l.source_id \in DatasetIds(s)
                       /\ l.target_id \in DatasetIds(s)
                       /\ l.operation_id \in OperationIds(s)
        joined == SelectSeq(s.lineage, Resolves)
        rows == [i \in 1..Len(joined) |->
            [source |-> RowsWithId(s.datasets, joined[i].target_id)[1].filepath,
             target |-> RowsWithId(s.datasets, joined[i].source_id)[1].filepath,
             operation |->
                 RowsWithId(s.operations, joined[i].operation_id)[1].function_name,
             operation_type |->
                 RowsWithId(s.operations, joined[i].operation_id)[1].operation_type,
             created_at |-> joined[i].created_at]]
    IN  OrderBy(rows, [i \in 1..Len(rows) |-> rows[i].created_at], FALSE)

\* the three JOINs of get_lineage_graph: one row per combination of a
\* lineage row with the dataset and operation rows its ids name, ORDER BY
\* l.created_at
get_lineage_graph(s) ==
    LET Resolves(l) == /\ l.source_id \in DatasetIds(s)
                       /\ l.target_id \in DatasetIds(s)
                       /\ l.operation_id \in OperationIds(s)
        joined == SelectSeq(s.lineage, Resolves)
        rows == [i \in 1..Len(joined) |->
            [source |-> RowsWithId(s.datasets, joined[i].source_id)[1].filepath,
             target |-> RowsWithId(s.datasets, joined[i].target_id)[1].filepath,
             operation |->
                 RowsWithId(s.operations, joined[i].operation_id)[1].function_name,
             operation_type |->
                 RowsWithId(s.operations, joined[i].operation_id)[1].operation_type,
             created_at |-> joined[i].created_at]]
    IN  OrderBy(rows, [i \in 1..Len(rows) |-> rows[i].created_at], FALSE)

get_lineage_summary(s) ==
    [datasets_count |-> Len(s.datasets),
     operations_count |-> Len(s.operations),
     lineage_edges_count |-> Len(get_lineage_graph(s))]

\* Path(p).name
basename(p) ==
    CASE p = A -> "a.csv"
      [] p = B -> "b.csv"
      [] p = C -> "c.csv"
      [] p = D -> "a.csv"
      [] OTHER -> p
\* mutant: the DiGraph is keyed by the full path
build_by_path(s) ==
    LET edges == get_lineage_graph(s)
        E == {<<edges[i].source, edges[i].target>> : i \in 1..Len(edges)}
    IN  [nodes |-> {e[1] : e \in E} \cup {e[2] : e \in E}, edges |-> E]

\* LineageGraph.build: the DiGraph keyed by basename
build(s) ==
    LET edges == get_lineage_graph(s)
        E == {<<basename(edges[i].source), basename(edges[i].target)>> :
                 i \in 1..Len(edges)}
    IN  [nodes |-> {e[1] : e \in E} \cup {e[2] : e \in E}, edges |-> E]

\* the pairs joined by a path of one or more edges
RECURSIVE Closure(_, _, _)
Closure(R, E, n) ==
    IF n = 0 THEN R
    ELSE Closure(R \cup {<<q[1][1], q[2][2]>> :
                            q \in {xy \in R \X E : xy[1][2] = xy[2][1]}},
                 E, n - 1)

\* nx.is_directed_acyclic_graph
is_directed_acyclic_graph(g) ==
    \A n \in g.nodes : <<n, n>> \notin Closure(g.edges, g.edges, Cardinality(g.nodes))
\* mutant: sources taken by out-degree and sinks by in-degree
get_stats_swapped(s) ==
    LET g == build(s)
    IN  [nodes |-> Cardinality(g.nodes),
         edges |-> Cardinality(g.edges),
         is_dag |-> is_directed_acyclic_graph(g),
         sources |-> {n \in g.nodes : ~\E e \in g.edges : e[1] = n},
         sinks |-> {n \in g.nodes : ~\E e \in g.edges : e[2] = n}]

get_stats(s) ==
    LET g == build(s)
    IN  [nodes |-> Cardinality(g.nodes),
         edges |-> Cardinality(g.edges),
         is_dag |-> is_directed_acyclic_graph(g),
         sources |-> {n \in g.nodes : ~\E e \in g.edges : e[2] = n},
         sinks |-> {n \in g.nodes : ~\E e \in g.edges : e[1] = n}]

(***************************************************************************)
(* State, initial state and the actions                                    *)
(***************************************************************************)
Cur == [datasets |-> datasets, operations |-> operations, lineage |-> lineage,
        tracked_files |-> tracked_files, recent_reads |-> recent_reads,
        recent_writes |-> recent_writes, nextId |-> nextId,
        runs |-> runs, current_run_id |-> current_run_id, db_open |-> db_open,
        now |-> clock,
        ret |-> None, exc |-> "none"]

Install(s) ==
    /\ datasets' = s.datasets
    /\ operations' = s.operations
    /\ lineage' = s.lineage
    /\ tracked_files' = s.tracked_files
    /\ recent_reads' = s.recent_reads
    /\ recent_writes' = s.recent_writes
    /\ nextId' = s.nextId
    /\ runs' = s.runs
    /\ current_run_id' = s.current_run_id
    /\ db_open' = s.db_open

\* a history entry: the call, its outcome and the rows it added
Entry(op, path, dir, srcs, tgts, ids, s) ==
    [op |-> op, path |-> path, dir |-> dir, srcs |-> srcs, tgts |-> tgts,
     ids |-> ids,
     ret |-> IF s.exc = "none" THEN s.ret ELSE None, exc |-> s.exc,
     added |-> [datasets |-> Len(s.datasets) - Len(datasets),
                operations |-> Len(s.operations) - Len(operations),
                lineage |-> Len(s.lineage) - Len(lineage)]]

FsEntry(op, p) == Entry(op, p, "", <<>>, <<>>, <<>>, Cur)

EmptyMap == [p \in {} |-> None]

\* the library attributes the hooks replace: <<holder, attribute>>
PandasReads == {"pd"} \X {"read_csv", "read_parquet", "read_json", "read_excel",
                          "read_pickle"}
FrameWrites == {"pd.DataFrame"} \X {"to_csv", "to_parquet", "to_json", "to_excel",
                                    "to_pickle"}
NumpyNames == {"np"} \X {"load", "save", "loadtxt", "savetxt"}
JoblibNames == {"joblib"} \X {"dump", "load"}
PickleNames == {"pickle"} \X {"dump", "load"}
HookedNames == PandasReads \cup FrameWrites \cup NumpyNames \cup JoblibNames
                   \cup PickleNames

\* the function a library attribute is bound to before any hook replaces it
Original == <<"original">>

EmptyGraph == [nodes |-> {}, edges |-> {}, built |-> FALSE]

\* one DatasetTracker constructed by the script, no run started, no session,
\* no hook installed, a LineageGraph constructed and not built
InitSession ==
    /\ runs = <<>>
    /\ current_run_id = None
    /\ db_open = TRUE
    /\ objs = EmptyMap
    /\ clock = 0
    /\ trackers = 1
    /\ auto_tracker = None
    /\ hook_tracker = None
    /\ original_functions = EmptyMap
    /\ bound = [n \in HookedNames |-> Original]
    /\ graph = EmptyGraph

\* DatasetTracker.__init__ on a new database file, all files present
Init ==
    /\ fs = [p \in Files |-> NewFile(Content1)]
    /\ datasets = <<>>
    /\ operations = <<>>
    /\ lineage = <<>>
    /\ tracked_files = EmptyMap
    /\ recent_reads = <<>>
    /\ recent_writes = <<>>
    /\ nextId = 1
    /\ InitSession
    /\ log = <<>>

Directions == {"read", "write"}
CallerNames == {"unknown", "run_pipeline"}

\* a caller (a hook or a script) invokes tracker.track_file(filepath, dir)
TrackFile(filepath, dir, caller) ==
    \E s \in {track_file(Cur, fs, filepath, dir, caller)} :
        /\ Install(s)
        /\ log' = Append(log, Entry("track_file", filepath, dir, <<>>, <<>>, <<>>, s))
        /\ UNCHANGED <<fs, sessionVars>>

\* the environment: a program (re)writes, removes or locks a file
FsWrite(p) ==
    /\ fs' = [fs EXCEPT ![p] =
                 NewFile(IF fs[p].exists /\ fs[p].content = Content1
                         THEN Content2 ELSE Content1)]
    /\ log' = Append(log, FsEntry("fs_write", p))
    /\ UNCHANGED <<datasets, operations, lineage, tracked_files, recent_reads,
                   recent_writes, nextId, runs, current_run_id, db_open,
                   sessionVars>>

FsRemove(p) ==
    /\ fs[p].exists
    /\ fs' = [fs EXCEPT ![p] = MissingFile]
    /\ log' = Append(log, FsEntry("fs_remove", p))
    /\ UNCHANGED <<datasets, operations, lineage, tracked_files, recent_reads,
                   recent_writes, nextId, runs, current_run_id, db_open,
                   sessionVars>>

FsLock(p) ==
    /\ fs[p].exists /\ fs[p].readable
    /\ fs' = [fs EXCEPT ![p].readable = FALSE]
    /\ log' = Append(log, FsEntry("fs_lock", p))
    /\ UNCHANGED <<datasets, operations, lineage, tracked_files, recent_reads,
                   recent_writes, nextId, runs, current_run_id, db_open,
                   sessionVars>>

EventPaths == {RelA, A, B, C}
EventFiles == {A, B, C}

Next ==
    \/ Len(log) < MaxEvents /\ \E p \in EventPaths, d \in Directions,
                                   c \in CallerNames : TrackFile(p, d, c)
    \/ Len(log) < MaxEvents /\ \E p \in EventFiles : FsWrite(p)
    \/ Len(log) < MaxEvents /\ \E p \in EventFiles : FsRemove(p)
    \/ Len(log) < MaxEvents /\ \E p \in EventFiles : FsLock(p)

Spec == Init /\ [][Next]_vars

(***************************************************************************)
(* SpecManual: the manual declaration paths next to the heuristic.  The    *)
(* file system is chosen at the start and does not change.                 *)
(***************************************************************************)
SourceLists == {<<>>, <<A>>, <<A, B>>}
TargetLists == {<<>>, <<C>>, <<C, D>>}
ManualPaths == {A, C}
FunctionNames == {"add_row"}
ManualCallers == {"run_pipeline"}

\* every file present and readable, or exactly one file missing or unreadable
ManualFs ==
    {[p \in Files |-> NewFile(Content1)]}
    \cup {[p \in Files |-> IF p = q THEN MissingFile ELSE NewFile(Content1)] :
             q \in Files}
    \cup {[p \in Files |-> IF p = q
                           THEN [NewFile(Content1) EXCEPT !.readable = FALSE]
                           ELSE NewFile(Content1)] : q \in Files}

InitManual ==
    /\ fs \in ManualFs
    /\ datasets = <<>>
    /\ operations = <<>>
    /\ lineage = <<>>
    /\ tracked_files = EmptyMap
    /\ recent_reads = <<>>
    /\ recent_writes = <<>>
    /\ nextId = 1
    /\ InitSession
    /\ log = <<>>

\* tracker.track_transformation(source_files, target_files, function_name)
TrackTransformation(source_files, target_files, function_name, caller) ==
    \E s \in {track_transformation(Cur, fs, source_files, target_files,
                                  function_name, caller)} :
        /\ Install(s)
        /\ log' = Append(log, Entry("track_transformation", "", "",
                                    source_files, target_files, <<>>, s))
        /\ UNCHANGED <<fs, sessionVars>>

\* with tracker.operation('transform', fn) as op: op.add_input(..) for every
\* input, op.add_output(..) for every output, then the body ends or raises;
\* the entry keeps how the body ended in dir
OperationContext(inputs, outputs, function_name, body_raised, caller) ==
    \E s \in {context_exit(Cur, fs, "transform", function_name, inputs, outputs,
                          body_raised, caller)} :
        /\ Install(s)
        /\ log' = Append(log, Entry("operation", "",
                                    IF body_raised THEN "raised" ELSE "returned",
                                    inputs, outputs, <<>>, s))
        /\ UNCHANGED <<fs, sessionVars>>

NextManual ==
    \/ Len(log) < MaxCalls /\ \E p \in ManualPaths, d \in Directions,
                                  c \in ManualCallers : TrackFile(p, d, c)
    \/ Len(log) < MaxCalls /\ \E src \in SourceLists, tgt \in TargetLists,
                                  f \in FunctionNames, c \in ManualCallers :
                                   TrackTransformation(src, tgt, f, c)
    \/ Len(log) < MaxCalls /\ \E src \in SourceLists, tgt \in TargetLists,
                                  f \in FunctionNames, r \in BOOLEAN,
                                  c \in ManualCallers :
                                   OperationContext(src, tgt, f, r, c)

SpecManual == InitManual /\ [][NextManual]_vars

(***************************************************************************)
(* SpecDeclare: files are tracked one by one and transformations declared, *)
(* every file present and readable.                                        *)
(***************************************************************************)
NextDeclare ==
    \/ Len(log) < MaxDeclareCalls /\ \E p \in ManualPaths, d \in Directions,
                                         c \in ManualCallers : TrackFile(p, d, c)
    \/ Len(log) < MaxDeclareCalls /\ \E src \in SourceLists, tgt \in TargetLists,
                                         f \in FunctionNames, c \in ManualCallers :
                                          TrackTransformation(src, tgt, f, c)

SpecDeclare == Init /\ [][NextDeclare]_vars

(***************************************************************************)
(* SpecStore: a client calls the store directly, with ids of its choice.   *)
(***************************************************************************)
StoreIds == 1..3

AddDataset(filepath, content) ==
    \E s \in {add_dataset(Cur, filepath, <<"sha256", content>>, Len(content))} :
        /\ Install(s)
        /\ log' = Append(log, Entry("add_dataset", filepath, "", <<>>, <<>>,
                                    <<>>, s))
        /\ UNCHANGED <<fs, sessionVars>>

AddOperation(operation_type, function_name) ==
    \E s \in {add_operation(Cur, operation_type, function_name)} :
        /\ Install(s)
        /\ log' = Append(log, Entry("add_operation", "", "", <<>>, <<>>, <<>>, s))
        /\ UNCHANGED <<fs, sessionVars>>

AddLineage(source_id, target_id, operation_id) ==
    \E s \in {add_lineage(Cur, source_id, target_id, operation_id, "derived_from")} :
        /\ Install(s)
        /\ log' = Append(log, Entry("add_lineage", "", "", <<>>, <<>>,
                                    <<source_id, target_id, operation_id>>, s))
        /\ UNCHANGED <<fs, sessionVars>>

NextStore ==
    \/ Len(log) < MaxStoreCalls /\ \E p \in {A, B} : AddDataset(p, Content1)
    \/ Len(log) < MaxStoreCalls /\ \E f \in FunctionNames :
                                        AddOperation("transform", f)
    \/ Len(log) < MaxStoreCalls /\ \E x \in StoreIds, y \in StoreIds,
                                        o \in StoreIds : AddLineage(x, y, o)

SpecStore == Init /\ [][NextStore]_vars

(***************************************************************************)
(* Properties                                                              *)
(***************************************************************************)
Last == log[Len(log)]

\* a read/write event for an existing file that track_file handled
Processed(e) == e.op = "track_file" /\ e.exc = "none" /\ e.ret # None
Events == SelectSeq(log, Processed)

PathOfId(id) == RowsWithId(datasets, id)[1].filepath
EdgePairs == {<<PathOfId(lineage[i].source_id), PathOfId(lineage[i].target_id)>> :
                 i \in 1..Len(lineage)}
FileOk(p) == fs[absolute(p)].exists /\ fs[absolute(p)].readable
Range(q) == {q[i] : i \in 1..Len(q)}

\* the history is n >= 1 reads of distinct files and then one write
ReadsThenWrite ==
    /\ Len(log) >= 2
    /\ \A i \in 1..Len(log) : Processed(log[i])
    /\ \A i \in 1..(Len(log) - 1) : log[i].dir = "read"
    /\ \A i, j \in 1..(Len(log) - 1) :
           i # j => absolute(log[i].path) # absolute(log[j].path)
    /\ Last.dir = "write"

\* C1 (fan-in): on a fresh tracker, reads of n >= 1 distinct existing files
\* followed by one write of q leave exactly n lineage rows, the i-th from the
\* i-th file read to q, all naming the one operation row that exists.
FanIn ==
    ReadsThenWrite =>
        /\ Len(lineage) = Len(log) - 1
        /\ Len(operations) = 1
        /\ \A i \in 1..Len(lineage) :
              /\ lineage[i].source_id \in DatasetIds(Cur)
              /\ lineage[i].target_id \in DatasetIds(Cur)
              /\ PathOfId(lineage[i].source_id) = absolute(log[i].path)
              /\ PathOfId(lineage[i].target_id) = absolute(Last.path)
              /\ lineage[i].operation_id = operations[1].id

FanInWitness ==
    /\ ReadsThenWrite
    /\ Len(log) = 3
    /\ EdgePairs = {<<A, C>>, <<B, C>>}
    /\ lineage[1].operation_id = lineage[2].operation_id

\* C5 (window reset): read(a), write(c), write(d) on a fresh tracker leaves
\* exactly the edge a->c, and any write event that directly follows another
\* write event adds no lineage row.
WindowReset ==
    /\ (/\ Len(log) = 3
        /\ Len(Events) = 3
        /\ log[1].dir = "read" /\ log[2].dir = "write" /\ log[3].dir = "write")
       => (/\ Len(lineage) = 1
           /\ EdgePairs = {<<absolute(log[1].path), absolute(log[2].path)>>})
    /\ \A i \in 1..(Len(Events) - 1) :
           (Events[i].dir = "write" /\ Events[i + 1].dir = "write")
               => Events[i + 1].added.lineage = 0

\* the stored edges as a graph over dataset ids
StoreGraph ==
    LET E == {<<lineage[i].source_id, lineage[i].target_id>> : i \in 1..Len(lineage)}
    IN  [nodes |-> {e[1] : e \in E} \cup {e[2] : e \in E}, edges |-> E]

\* C6 (DAG): after any sequence of read/write events the stored edges form
\* no directed cycle and no self-loop, and get_stats reports is_dag.
AlwaysDag ==
    /\ is_directed_acyclic_graph(StoreGraph)
    /\ get_stats(Cur).is_dag

UniquePaths(rows) ==
    \A i, j \in 1..Len(rows) : rows[i].filepath = rows[j].filepath => i = j

\* C7 (dataset identity): no step leaves two dataset rows with one filepath;
\* no step changes or removes a dataset row or a cached id; the cached id of
\* a path is the id of its row; and a read/write event for an existing file
\* whose path is cached returns the cached id and inserts no dataset row.
DatasetIdentity ==
    [][/\ UniquePaths(datasets')
       /\ Len(datasets') >= Len(datasets)
       /\ SubSeq(datasets', 1, Len(datasets)) = datasets
       /\ \A p \in DOMAIN tracked_files :
              p \in DOMAIN tracked_files' /\ tracked_files'[p] = tracked_files[p]
       /\ \A p \in DOMAIN tracked_files' :
              \E i \in 1..Len(datasets') :
                  datasets'[i].filepath = p /\ datasets'[i].id = tracked_files'[p]
       /\ LET e == log'[Len(log')]
          IN  (/\ Len(log') = Len(log) + 1
               /\ e.op = "track_file"
               /\ absolute(e.path) \in DOMAIN tracked_files
               /\ fs[absolute(e.path)].exists)
              => (/\ e.exc = "none"
                  /\ e.ret = tracked_files[absolute(e.path)]
                  /\ datasets' = datasets)
      ]_vars

\* a file was observed, its content then changed, and it was observed again
DatasetIdentityWitness ==
    /\ Len(log) = 3
    /\ Processed(log[1]) /\ Processed(log[3])
    /\ log[2].op = "fs_write"
    /\ absolute(log[1].path) = log[2].path
    /\ absolute(log[3].path) = log[2].path
    /\ log[3].ret = log[1].ret
    /\ Len(datasets) = 1
    /\ datasets[1].hash # hash_file(fs, log[2].path)
    /\ datasets[1].size # Len(fs[log[2].path].content)

NoDuplicates(q) == \A i, j \in 1..Len(q) : q[i] = q[j] => i = j

ManualDeclaration ==
    /\ \A i \in 1..Len(log) :
           (/\ log[i].op = "track_transformation"
            /\ log[i].exc = "none"
            /\ \A p \in Range(log[i].srcs) \cup Range(log[i].tgts) : FileOk(p))
           => (/\ log[i].added.lineage = Len(log[i].srcs) * Len(log[i].tgts)
               /\ log[i].added.operations = 1)
    /\ (/\ Len(log) = 1
        /\ Last.op = "track_transformation"
        /\ Last.exc = "none"
        /\ Len(Last.srcs) = 2 /\ Len(Last.tgts) = 2
        /\ \A p \in Range(Last.srcs) \cup Range(Last.tgts) : FileOk(p))
       => (/\ Len(lineage) = 4
           /\ Len(operations) = 1
           /\ \A i \in 1..Len(lineage) : lineage[i].operation_id = operations[1].id)

\* C3: track_file(input, read), track_file(output, write) and then
\* track_transformation([input], [output]) give the summary 2 / 1 / 1.
TrackThenDeclare ==
    (/\ Len(log) = 3
     /\ Processed(log[1]) /\ log[1].dir = "read"
     /\ Processed(log[2]) /\ log[2].dir = "write"
     /\ absolute(log[1].path) # absolute(log[2].path)
     /\ log[3].op = "track_transformation"
     /\ log[3].exc = "none"
     /\ log[3].srcs = <<log[1].path>>
     /\ log[3].tgts = <<log[2].path>>)
    => (/\ get_lineage_summary(Cur).datasets_count = 2
        /\ get_lineage_summary(Cur).operations_count = 1
        /\ get_lineage_summary(Cur).lineage_edges_count = 1)

\* C4 (atomicity): a track_transformation call that fails adds no dataset,
\* no operation and no lineage row.
ManualAtomicity ==
    \A i \in 1..Len(log) :
        (log[i].op = "track_transformation" /\ log[i].exc # "none")
        => (/\ log[i].added.datasets = 0
            /\ log[i].added.operations = 0
            /\ log[i].added.lineage = 0)

\* C8 (store integrity): add_lineage with a source, target or operation id
\* that names no row raises IntegrityError and adds no lineage row.
StoreIntegrity ==
    (/\ Len(log) > 0
     /\ Last.op = "add_lineage"
     /\ ~(/\ Last.ids[1] \in DatasetIds(Cur)
          /\ Last.ids[2] \in DatasetIds(Cur)
          /\ Last.ids[3] \in OperationIds(Cur)))
    => (Last.exc = "IntegrityError" /\ Last.added.lineage = 0)

\* C9 (referential invariant): every lineage row the tracker wrote names two
\* existing dataset rows and an existing operation row.
Referential ==
    \A i \in 1..Len(lineage) :
        /\ lineage[i].source_id \in DatasetIds(Cur)
        /\ lineage[i].target_id \in DatasetIds(Cur)
        /\ lineage[i].operation_id \in OperationIds(Cur)

\* a declaration and an operation context have both added lineage rows, the
\* context with a file it could not track
ReferentialWitness ==
    /\ \E i \in 1..Len(log) :
           log[i].op = "track_transformation" /\ log[i].added.lineage > 0
    /\ \E i \in 1..Len(log) :
           /\ log[i].op = "operation" /\ log[i].added.lineage > 0
           /\ \E p \in Range(log[i].srcs) \cup Range(log[i].tgts) : ~fs[p].exists

\* the step is one call of op: the history grows by that call
Calls(op) == Len(log') = Len(log) + 1 /\ log'[Len(log')].op = op

\* C11 (NotFound): a track_file call for a path that does not exist returns
\* None, raises nothing and leaves tracked_files, recent_reads, recent_writes
\* and every table as they were, so what follows runs from the same state as
\* if the call had not been made.
NotFoundDropped ==
    [][(Calls("track_file") /\ ~fs[absolute(log'[Len(log')].path)].exists)
       => (/\ log'[Len(log')].ret = None
           /\ log'[Len(log')].exc = "none"
           /\ UNCHANGED <<datasets, operations, lineage, runs, tracked_files,
                          recent_reads, recent_writes, nextId>>)]_vars

\* a cached path was removed and then written while a read is pending
NotFoundDroppedWitness ==
    /\ Len(log) > 0
    /\ Last.op = "track_file" /\ Last.dir = "write"
    /\ ~fs[absolute(Last.path)].exists
    /\ absolute(Last.path) \in DOMAIN tracked_files
    /\ recent_reads # <<>>

\* C12 (hash failure): a track_file call for a file that exists and cannot
\* be hashed adds no dataset, operation or lineage row and leaves recent_reads
\* and recent_writes as they were, for a cached path as for a new one.
HashFailureDropped ==
    [][(/\ Calls("track_file")
        /\ fs[absolute(log'[Len(log')].path)].exists
        /\ hash_file(fs, log'[Len(log')].path) = NoHash)
       => UNCHANGED <<datasets, operations, lineage, recent_reads,
                      recent_writes>>]_vars

(***************************************************************************)
(* Runs, the tracking session (auto.py) and the hooks (hooks.py)           *)
(***************************************************************************)
NoTime == -1                \* NULL in a TIMESTAMP column

\* LineageDatabase.start_run
db_start_run(s, script_path) ==
    IF s.exc # "none" THEN s
    ELSE IF ~s.db_open THEN [s EXCEPT !.exc = "ProgrammingError"]
    ELSE [s EXCEPT !.runs = Append(@, [id |-> s.nextId,
                                       script_path |-> script_path,
                                       start_time |-> s.now,
                                       end_time |-> NoTime,
                                       status |-> "running",
                                       closed |-> 0]),
                   !.nextId = @ + 1,
                   !.ret = s.nextId]

\* LineageDatabase.end_run: UPDATE runs SET end_time, status WHERE id = run_id;
\* closed counts the updates a row received
db_end_run(s, run_id, status) ==
    IF s.exc # "none" THEN s
    ELSE IF ~s.db_open THEN [s EXCEPT !.exc = "ProgrammingError"]
    ELSE [s EXCEPT !.runs = [i \in 1..Len(s.runs) |->
                                IF s.runs[i].id = run_id
                                THEN [s.runs[i] EXCEPT !.end_time = s.now,
                                                       !.status = status,
                                                       !.closed = @ + 1]
                                ELSE s.runs[i]],
                   !.ret = None]

\* DatasetTracker.start_run
start_run(s, script_path) ==
    Then(db_start_run(s, script_path), LAMBDA s1 :
         IF s1.exc # "none" THEN s1 ELSE [s1 EXCEPT !.current_run_id = s1.ret])

\* DatasetTracker.end_run
end_run(s, status) ==
    IF s.exc # "none" THEN s
    ELSE IF s.current_run_id # None
    THEN Then(db_end_run(s, s.current_run_id, status), LAMBDA s1 :
              IF s1.exc # "none" THEN s1
              ELSE [s1 EXCEPT !.current_run_id = None, !.ret = None])
    ELSE [s EXCEPT !.ret = None]

\* DatasetTracker.close
close(s) == IF s.exc # "none" THEN s ELSE [s EXCEPT !.db_open = FALSE]

\* DatasetTracker(db_path) on the database file in use: the tables stay
NewTracker(s) ==
    [s EXCEPT !.tracked_files = EmptyMap, !.recent_reads = <<>>,
              !.recent_writes = <<>>, !.current_run_id = None, !.db_open = TRUE]

\* the fields of one tracker object
ObjOf(s) == [tracked_files |-> s.tracked_files, recent_reads |-> s.recent_reads,
             recent_writes |-> s.recent_writes,
             current_run_id |-> s.current_run_id, db_open |-> s.db_open]

Extend(f, k, v) == [x \in (DOMAIN f) \cup {k} |-> IF x = k THEN v ELSE f[x]]

\* the state a method of tracker object t starts from; object 1 is the
\* tracker of Init, objects 2.. are in objs
On(t) ==
    IF t = 1 THEN Cur
    ELSE [Cur EXCEPT !.tracked_files = objs[t].tracked_files,
                     !.recent_reads = objs[t].recent_reads,
                     !.recent_writes = objs[t].recent_writes,
                     !.current_run_id = objs[t].current_run_id,
                     !.db_open = objs[t].db_open]

InstallStore(s) ==
    /\ datasets' = s.datasets
    /\ operations' = s.operations
    /\ lineage' = s.lineage
    /\ nextId' = s.nextId
    /\ runs' = s.runs

InstallTracker(t, s) ==
    IF t = 1
    THEN /\ tracked_files' = s.tracked_files
         /\ recent_reads' = s.recent_reads
         /\ recent_writes' = s.recent_writes
         /\ current_run_id' = s.current_run_id
         /\ db_open' = s.db_open
         /\ objs' = objs
    ELSE /\ objs' = Extend(objs, t, ObjOf(s))
         /\ UNCHANGED <<tracked_files, recent_reads, recent_writes,
                        current_run_id, db_open>>

\* module.__name__ of the object whose attribute is replaced
ModuleName(holder) ==
    CASE holder = "pd" -> "pandas"
      [] holder = "pd.DataFrame" -> "DataFrame"
      [] holder = "np" -> "numpy"
      [] holder = "joblib" -> "joblib"
      [] holder = "pickle" -> "pickle"

\* f"{module.__name__}.{func_name}", kept as the pair around the last dot
Key(n) == <<ModuleName(n[1]), n[2]>>

\* a tracked_* wrapper around the function v
Tracked(v) == <<"tracked", v>>

\* mutant: save_original stores the current binding at every call
save_original_overwrites(h, n) ==
    [h EXCEPT !.of = Extend(@, Key(n), h.bnd[n])]

\* save_original for every name of a group, then the group's assignments:
\* h = [of |-> _original_functions, bnd |-> the bindings, exc]
save_original(h, n) ==
    IF Key(n) \in DOMAIN h.of THEN h
    ELSE [h EXCEPT !.of = Extend(@, Key(n), h.bnd[n])]

RECURSIVE save_originals(_, _)
save_originals(h, names) ==
    IF names = {} THEN h
    ELSE LET n == CHOOSE x \in names : TRUE
         IN  Then(save_original(h, n), LAMBDA h1 : save_originals(h1, names \ {n}))

hook_group(h, names) ==
    Then(save_originals(h, names), LAMBDA h1 :
         [h1 EXCEPT !.bnd = [n \in DOMAIN @ |->
                                IF n \in names THEN Tracked(h1.of[Key(n)])
                                ELSE @[n]]])

hook_pandas(h) == hook_group(h, PandasReads \cup FrameWrites)
hook_numpy(h) == hook_group(h, NumpyNames)
hook_sklearn(h) == hook_group(h, JoblibNames)
hook_pickle(h) == hook_group(h, PickleNames)

\* the four hook_* calls of enable_hooks
install_hooks(h) ==
    Then(hook_pandas(h), LAMBDA h1 :
    Then(hook_numpy(h1), LAMBDA h2 :
    Then(hook_sklearn(h2), LAMBDA h3 : hook_pickle(h3))))

\* "holder.attr = _original_functions[module + '.' + attr]" for the names of
\* one group, whose keys were saved together; a key that is not there raises
\* KeyError at the first assignment of the group
restore(h, names, module) ==
    IF h.exc # "none" THEN h
    ELSE IF \E n \in names : <<module, n[2]>> \notin DOMAIN h.of
    THEN [h EXCEPT !.exc = "KeyError"]
    ELSE [h EXCEPT !.bnd = [n \in DOMAIN @ |->
                               IF n \in names THEN h.of[<<module, n[2]>>]
                               ELSE @[n]]]

disable_hooks(h) ==
    Then(IF <<"pandas", "read_csv">> \in DOMAIN h.of
         THEN restore(restore(h, PandasReads, "pandas"), FrameWrites,
                      "pandas.core.frame.DataFrame")
         ELSE h, LAMBDA h1 :
    Then(IF h1.exc = "none" /\ <<"numpy", "load">> \in DOMAIN h1.of
         THEN restore(h1, NumpyNames, "numpy") ELSE h1, LAMBDA h2 :
    Then(IF h2.exc = "none" /\ <<"joblib", "dump">> \in DOMAIN h2.of
         THEN restore(h2, JoblibNames, "joblib") ELSE h2, LAMBDA h3 :
         IF h3.exc = "none" /\ <<"pickle", "dump">> \in DOMAIN h3.of
         THEN restore(h3, PickleNames, "pickle") ELSE h3)))

Hooks == [of |-> original_functions, bnd |-> bound, exc |-> "none"]

\* mutant: start_tracking does not look at _auto_tracker
session_active_ignored(t) == FALSE

\* "_auto_tracker is not None"
session_active(t) == t # None

SessionEntry(op, s, t, exc) ==
    Entry(op, "", "", <<>>, <<>>, <<>>, [s EXCEPT !.ret = t, !.exc = exc])

ScriptPaths == {None}
Statuses == {"completed", "failed"}

\* auto.start_tracking(): the default database file is the one in use
StartTracking(script_path) ==
    IF session_active(auto_tracker)
    THEN /\ log' = Append(log, SessionEntry("start_tracking", Cur, auto_tracker,
                                            "none"))
         /\ UNCHANGED <<fs, datasets, operations, lineage, tracked_files,
                        recent_reads, recent_writes, nextId, runs,
                        current_run_id, db_open, sessionVars>>
    ELSE \E s \in {start_run(NewTracker(Cur), script_path)} :
         \E h \in {install_hooks(Hooks)} :
             /\ InstallStore(s)
             /\ InstallTracker(trackers + 1, s)
             /\ trackers' = trackers + 1
             /\ auto_tracker' = trackers + 1
             /\ hook_tracker' = trackers + 1
             /\ original_functions' = h.of
             /\ bound' = h.bnd
             /\ log' = Append(log, SessionEntry("start_tracking", s,
                                                trackers + 1, s.exc))
             /\ UNCHANGED <<fs, clock, graph>>

\* auto.stop_tracking(status)
StopTracking(status) ==
    IF auto_tracker = None
    THEN /\ log' = Append(log, SessionEntry("stop_tracking", Cur, None, "none"))
         /\ UNCHANGED <<fs, datasets, operations, lineage, tracked_files,
                        recent_reads, recent_writes, nextId, runs,
                        current_run_id, db_open, sessionVars>>
    ELSE \E s \in {close(end_run(On(auto_tracker), status))} :
             /\ InstallStore(s)
             /\ InstallTracker(auto_tracker, s)
             /\ auto_tracker' = IF s.exc = "none" THEN None ELSE auto_tracker
             /\ log' = Append(log, SessionEntry("stop_tracking", s, None, s.exc))
             /\ UNCHANGED <<fs, clock, trackers, hook_tracker,
                            original_functions, bound, graph>>

\* tracker.start_run() and tracker.end_run(status) on the tracker of Init
StartRun(script_path) ==
    \E s \in {start_run(Cur, script_path)} :
        /\ Install(s)
        /\ log' = Append(log, Entry("start_run", "", "", <<>>, <<>>, <<>>, s))
        /\ UNCHANGED <<fs, sessionVars>>

EndRun(status) ==
    \E s \in {end_run(Cur, status)} :
        /\ Install(s)
        /\ log' = Append(log, Entry("end_run", "", status, <<>>, <<>>, <<>>, s))
        /\ UNCHANGED <<fs, sessionVars>>

\* hooks.enable_hooks(tracker): tracker is a DatasetTracker or None
EnableHooks(tracker) ==
    \E h \in {install_hooks(Hooks)} :
        /\ original_functions' = h.of
        /\ bound' = h.bnd
        /\ IF tracker # None
           THEN /\ hook_tracker' = tracker
                /\ log' = Append(log, SessionEntry("enable_hooks", Cur, tracker,
                                                   "none"))
                /\ UNCHANGED <<datasets, operations, lineage, tracked_files,
                               recent_reads, recent_writes, nextId, runs,
                               current_run_id, db_open, objs, trackers>>
           ELSE \E s \in {start_run(NewTracker(Cur), None)} :
                    /\ InstallStore(s)
                    /\ InstallTracker(trackers + 1, s)
                    /\ trackers' = trackers + 1
                    /\ hook_tracker' = trackers + 1
                    /\ log' = Append(log, SessionEntry("enable_hooks", s,
                                                       trackers + 1, s.exc))
        /\ UNCHANGED <<fs, clock, auto_tracker, graph>>

\* hooks.disable_hooks()
DisableHooks ==
    \E h \in {disable_hooks(Hooks)} :
        /\ bound' = h.bnd
        /\ log' = Append(log, SessionEntry("disable_hooks", Cur, None, h.exc))
        /\ UNCHANGED <<fs, datasets, operations, lineage, tracked_files,
                       recent_reads, recent_writes, nextId, runs, current_run_id,
                       db_open, objs, clock, trackers, auto_tracker,
                       hook_tracker, original_functions, graph>>

(***************************************************************************)
(* SpecSession: a script starts and stops the tracking session, starts and *)
(* ends runs on its own tracker and enables and disables the hooks.        *)
(***************************************************************************)
NextSession ==
    \/ Len(log) < MaxSessionCalls /\ \E p \in ScriptPaths : StartTracking(p)
    \/ Len(log) < MaxSessionCalls /\ \E st \in Statuses : StopTracking(st)
    \/ Len(log) < MaxSessionCalls /\ \E p \in ScriptPaths : StartRun(p)
    \/ Len(log) < MaxSessionCalls /\ \E st \in Statuses : EndRun(st)
    \/ Len(log) < MaxSessionCalls /\ \E t \in {None} \cup (1..trackers) :
                                          EnableHooks(t)
    \/ Len(log) < MaxSessionCalls /\ DisableHooks

SpecSession == Init /\ [][NextSession]_vars

\* C13 (session misuse): start_tracking while a session is active returns the
\* active tracker and makes no tracker object and no run row; stop_tracking
\* with no session raises nothing; either call leaves every variable of the
\* store, the trackers and the hooks as it was.
SessionMisuse ==
    [][(\/ Calls("start_tracking") /\ auto_tracker # None
        \/ Calls("stop_tracking") /\ auto_tracker = None)
       => (/\ log'[Len(log')].exc = "none"
           /\ log'[Len(log')].ret = auto_tracker
           /\ UNCHANGED <<fs, datasets, operations, lineage, tracked_files,
                          recent_reads, recent_writes, nextId, runs,
                          current_run_id, db_open, sessionVars>>)]_vars

\* both misuses have happened: a second start_tracking in a running session,
\* and a stop_tracking after the session was stopped
SessionMisuseWitness ==
    /\ \E i \in 2..Len(log) :
           /\ log[i].op = "start_tracking" /\ log[i - 1].op = "start_tracking"
           /\ log[i].ret = log[i - 1].ret
    /\ Len(log) > 1
    /\ Last.op = "stop_tracking" /\ log[Len(log) - 1].op = "stop_tracking"
    /\ Len(runs) = 1 /\ runs[1].status # "running"

\* C14 (runs closed once): when the calls so far are start_run and end_run
\* calls on one tracker and the last one is an end_run, every run row has a
\* status other than 'running', an end_time, and was updated by exactly one
\* end_run.
RunsClosedOnce ==
    (/\ Len(log) > 0
     /\ \A i \in 1..Len(log) : log[i].op \in {"start_run", "end_run"}
     /\ Last.op = "end_run")
    => \A i \in 1..Len(runs) : /\ runs[i].status # "running"
                               /\ runs[i].end_time # NoTime
                               /\ runs[i].closed = 1

(***************************************************************************)
(* SpecOrder: a client fills the store with rows whose ids resolve while   *)
(* the clock advances between some of the inserts.                         *)
(***************************************************************************)
OrderPaths == {A, B}

\* the next second begins after a second in which a row was inserted; nothing
\* else happens
Tick ==
    /\ clock < MaxClock
    /\ \/ \E i \in 1..Len(datasets) : datasets[i].created_at = clock
       \/ \E i \in 1..Len(operations) : operations[i].executed_at = clock
       \/ \E i \in 1..Len(lineage) : lineage[i].created_at = clock
    /\ clock' = clock + 1
    /\ UNCHANGED <<fs, datasets, operations, lineage, tracked_files, recent_reads,
                   recent_writes, nextId, runs, current_run_id, db_open, objs,
                   trackers, auto_tracker, hook_tracker, original_functions,
                   bound, graph, log>>

NextOrder ==
    \/ Len(log) < MaxOrderCalls /\ \E p \in OrderPaths : AddDataset(p, Content1)
    \/ Len(log) < MaxOrderCalls /\ \E f \in FunctionNames :
                                        AddOperation("transform", f)
    \/ Len(log) < MaxOrderCalls /\ \E x \in DatasetIds(Cur), y \in DatasetIds(Cur),
                                        o \in OperationIds(Cur) : AddLineage(x, y, o)
    \/ Tick

SpecOrder == Init /\ [][NextOrder]_vars

Reverse(q) == [i \in 1..Len(q) |-> q[Len(q) + 1 - i]]
DistinctTimes(times) == \A i, j \in 1..Len(times) : i # j => times[i] # times[j]
DatasetTimes == [i \in 1..Len(datasets) |-> datasets[i].created_at]
OperationTimes == [i \in 1..Len(operations) |-> operations[i].executed_at]
LineageTimes == [i \in 1..Len(lineage) |-> lineage[i].created_at]

\* C15 (ordering): datasets inserted at pairwise distinct timestamps come back
\* from get_all_datasets newest first, operations likewise from
\* get_all_operations, and edges inserted at pairwise distinct timestamps come
\* back from get_lineage_graph oldest first, in insertion order.
OrderingContracts ==
    /\ DistinctTimes(DatasetTimes) => get_all_datasets(Cur) = Reverse(datasets)
    /\ DistinctTimes(OperationTimes)
           => get_all_operations(Cur) = Reverse(operations)
    /\ DistinctTimes(LineageTimes)
           => /\ Len(get_lineage_graph(Cur)) = Len(lineage)
              /\ \A i \in 1..Len(lineage) :
                     /\ get_lineage_graph(Cur)[i].created_at = lineage[i].created_at
                     /\ get_lineage_graph(Cur)[i].source
                            = PathOfId(lineage[i].source_id)
                     /\ get_lineage_graph(Cur)[i].target
                            = PathOfId(lineage[i].target_id)

\* two datasets and two edges, each pair inserted at two distinct timestamps
OrderingContractsWitness ==
    /\ Len(datasets) = 2 /\ DistinctTimes(DatasetTimes)
    /\ Len(lineage) = 2 /\ DistinctTimes(LineageTimes)
    /\ get_lineage_graph(Cur)[1].source # get_lineage_graph(Cur)[2].source

\* the history is read(raw), write(clean), read(clean), write(final) for three
\* files, every event handled
StraightLine ==
    /\ Len(log) = 4
    /\ \A i \in 1..4 : Processed(log[i])
    /\ log[1].dir = "read" /\ log[2].dir = "write"
    /\ log[3].dir = "read" /\ log[4].dir = "write"
    /\ absolute(log[2].path) = absolute(log[3].path)
    /\ Cardinality({absolute(log[1].path), absolute(log[2].path),
                    absolute(log[4].path)}) = 3

\* C16 (graph statistics): after read(raw), write(clean), read(clean),
\* write(final) on a fresh tracker the graph built from the store has raw as
\* its only source, final as its only sink, and is acyclic.
PipelineStats ==
    StraightLine
    => /\ get_stats(Cur).sources = {basename(absolute(log[1].path))}
       /\ get_stats(Cur).sinks = {basename(absolute(log[4].path))}
       /\ get_stats(Cur).is_dag

PipelineStatsWitness ==
    /\ StraightLine
    /\ get_stats(Cur).nodes = 3 /\ get_stats(Cur).edges = 2

(***************************************************************************)
(* The LineageGraph object: its DiGraph and its _built flag                *)
(***************************************************************************)
\* self.graph.clear()
graph_clear(g) == [g EXCEPT !.nodes = {}, !.edges = {}]

\* mutant: a graph that was built once is cleared and not filled again
graph_build_once(g, s) ==
    IF g.built \/ get_lineage_graph(s) = <<>> THEN graph_clear(g)
    ELSE [nodes |-> build(s).nodes, edges |-> build(s).edges, built |-> TRUE]

\* LineageGraph.build on the object g: add_edge for every row, or the early
\* return that leaves _built as it was
graph_build(g, s) ==
    IF get_lineage_graph(s) = <<>> THEN graph_clear(g)
    ELSE [nodes |-> graph_clear(g).nodes \cup build(s).nodes,
          edges |-> graph_clear(g).edges \cup build(s).edges,
          built |-> TRUE]

\* the dictionary get_stats returns for the DiGraph of g
stats_of(g) ==
    [nodes |-> Cardinality(g.nodes),
     edges |-> Cardinality(g.edges),
     is_dag |-> is_directed_acyclic_graph(g),
     sources |-> {n \in g.nodes : ~\E e \in g.edges : e[2] = n},
     sinks |-> {n \in g.nodes : ~\E e \in g.edges : e[1] = n}]

\* LineageGraph.get_stats on the object g: "if not self._built: self.build()"
graph_get_stats(g, s) == IF ~g.built THEN graph_build(g, s) ELSE g

\* graph.build()
Build ==
    /\ graph' = graph_build(graph, Cur)
    /\ log' = Append(log, Entry("build", "", "", <<>>, <<>>, <<>>, Cur))
    /\ UNCHANGED <<fs, datasets, operations, lineage, tracked_files, recent_reads,
                   recent_writes, nextId, runs, current_run_id, db_open, objs,
                   clock, trackers, auto_tracker, hook_tracker,
                   original_functions, bound>>

\* graph.get_stats(); the entry keeps the dictionary returned
GetStats ==
    /\ graph' = graph_get_stats(graph, Cur)
    /\ log' = Append(log, Entry("get_stats", "", "", <<>>, <<>>,
                                <<stats_of(graph_get_stats(graph, Cur))>>, Cur))
    /\ UNCHANGED <<fs, datasets, operations, lineage, tracked_files, recent_reads,
                   recent_writes, nextId, runs, current_run_id, db_open, objs,
                   clock, trackers, auto_tracker, hook_tracker,
                   original_functions, bound>>

(***************************************************************************)
(* SpecGraph: read and write events on three files, two of them with the   *)
(* same name in different directories, and a LineageGraph on the store.    *)
(***************************************************************************)
GraphPaths == {A, B, D}

NextGraph ==
    \/ Len(log) < MaxGraphCalls /\ \E p \in GraphPaths, d \in Directions,
                                       c \in ManualCallers : TrackFile(p, d, c)
    \/ Len(log) < MaxGraphCalls /\ Build
    \/ Len(log) < MaxGraphCalls /\ GetStats

SpecGraph == Init /\ [][NextGraph]_vars

\* C17 (rebuild): a build, or a get_stats, that directly follows a build, with
\* no call on the store in between, leaves the node set and the edge set of
\* the graph as the first build left them; on a store without edges build and
\* get_stats leave zero nodes and zero edges and get_stats returns zero
\* counts and no sources or sinks.
RebuildIdempotent ==
    [][/\ ((Calls("build") \/ Calls("get_stats")) /\ Len(log) > 0
              /\ Last.op = "build")
           => (graph'.nodes = graph.nodes /\ graph'.edges = graph.edges)
       /\ ((Calls("build") \/ Calls("get_stats")) /\ lineage = <<>>)
           => (graph'.nodes = {} /\ graph'.edges = {})
       /\ (Calls("get_stats") /\ lineage = <<>>)
           => (/\ log'[Len(log')].ids[1].nodes = 0
               /\ log'[Len(log')].ids[1].edges = 0
               /\ log'[Len(log')].ids[1].sources = {}
               /\ log'[Len(log')].ids[1].sinks = {})]_vars

\* a graph with edges was built twice in a row and get_stats followed
RebuildIdempotentWitness ==
    /\ Len(log) >= 3
    /\ Last.op = "get_stats"
    /\ log[Len(log) - 1].op = "build" /\ log[Len(log) - 2].op = "build"
    /\ graph.edges # {}
    /\ Last.ids[1].edges = Cardinality(graph.edges)

\* C18 (disable_hooks): when disable_hooks has just been called after one or
\* more enable_hooks calls, it raised nothing and every attribute the hooks
\* replace is bound to the original function again.
HooksRestored ==
    (/\ Len(log) > 1
     /\ Last.op = "disable_hooks"
     /\ \E i \in 1..(Len(log) - 1) : log[i].op = "enable_hooks")
    => /\ Last.exc = "none"
       /\ \A n \in HookedNames : bound[n] = Original

(***************************************************************************)
(* SpecRoundTrip: a client fills the store and names, in add_lineage, ids  *)
(* the store returned or an id that the store never handed out.            *)
(***************************************************************************)
UnknownId == 99
RoundTripFunctions == {"add_row", "dropna"}

NextRoundTrip ==
    \/ Len(log) < MaxRoundTripCalls /\ \E p \in OrderPaths : AddDataset(p, Content1)
    \/ Len(log) < MaxRoundTripCalls /\ \E f \in RoundTripFunctions :
                                            AddOperation("transform", f)
    \/ Len(log) < MaxRoundTripCalls
           /\ \E x \in DatasetIds(Cur) \cup {UnknownId},
                 y \in DatasetIds(Cur) \cup {UnknownId},
                 o \in OperationIds(Cur) \cup {UnknownId} : AddLineage(x, y, o)

SpecRoundTrip == Init /\ [][NextRoundTrip]_vars

\* the id is the one that an earlier call of op returned
ReturnedBy(op, id) == \E i \in 1..Len(log) : log[i].op = op /\ log[i].ret = id
PathGiven(id) ==
    log[CHOOSE i \in 1..Len(log) : log[i].op = "add_dataset" /\ log[i].ret = id].path

\* the add_lineage calls whose three ids were returned by the store
ResolvedCall(e) ==
    /\ e.op = "add_lineage" /\ e.exc = "none"
    /\ ReturnedBy("add_dataset", e.ids[1])
    /\ ReturnedBy("add_dataset", e.ids[2])
    /\ ReturnedBy("add_operation", e.ids[3])
ResolvedCalls == SelectSeq(log, ResolvedCall)

\* C19 (round trip): get_lineage_graph returns one row for every add_lineage
\* call whose source, target and operation ids the store had returned, and no
\* other row; the row carries the filepath given for the source dataset, the
\* filepath given for the target dataset and the function_name and
\* operation_type of the operation.
RoundTrip ==
    /\ Len(get_lineage_graph(Cur)) = Len(ResolvedCalls)
    /\ \A i \in 1..Len(ResolvedCalls) :
           /\ get_lineage_graph(Cur)[i].source = PathGiven(ResolvedCalls[i].ids[1])
           /\ get_lineage_graph(Cur)[i].target = PathGiven(ResolvedCalls[i].ids[2])
           /\ \E j \in 1..Len(operations) :
                  /\ operations[j].id = ResolvedCalls[i].ids[3]
                  /\ get_lineage_graph(Cur)[i].operation
                         = operations[j].function_name
                  /\ get_lineage_graph(Cur)[i].operation_type
                         = operations[j].operation_type

\* two datasets, one operation and one edge between them were inserted into
\* the empty store, and the one row came back
RoundTripWitness ==
    /\ Len(log) = 4
    /\ log[1].op = "add_dataset" /\ log[2].op = "add_dataset"
    /\ log[1].path # log[2].path
    /\ log[3].op = "add_operation"
    /\ log[4].op = "add_lineage"
    /\ log[4].ids = <<log[1].ret, log[2].ret, log[3].ret>>
    /\ Len(get_lineage_graph(Cur)) = 1
    /\ get_lineage_graph(Cur)[1].source = log[1].path
    /\ get_lineage_graph(Cur)[1].target = log[2].path

(***************************************************************************)
(* SpecPipelines: two pipelines of one process, each with its own files,   *)
(* deliver their events in any interleaving to the one tracker.            *)
(***************************************************************************)
Pipelines == {1, 2}
PipelineFiles(pipe) == IF pipe = 1 THEN {A, C} ELSE {B, D}

\* pipeline pipe performs an I/O call and the event reaches the tracker; the
\* entry keeps the pipeline in ids, which track_file never sees
PipelineEvent(pipe, filepath, dir, caller) ==
    \E s \in {track_file(Cur, fs, filepath, dir, caller)} :
        /\ Install(s)
        /\ log' = Append(log, Entry("track_file", filepath, dir, <<>>, <<>>,
                                    <<pipe>>, s))
        /\ UNCHANGED <<fs, sessionVars>>

NextPipelines ==
    \/ Len(log) < MaxPipelineEvents
           /\ \E p \in PipelineFiles(1), d \in Directions, c \in ManualCallers :
                  PipelineEvent(1, p, d, c)
    \/ Len(log) < MaxPipelineEvents
           /\ \E p \in PipelineFiles(2), d \in Directions, c \in ManualCallers :
                  PipelineEvent(2, p, d, c)

SpecPipelines == Init /\ [][NextPipelines]_vars

\* P1 read(A), P2 read(B), P1 write(C), P2 write(D)
Interleaved ==
    /\ Len(log) = 4
    /\ log[1].ids = <<1>> /\ log[1].path = A /\ log[1].dir = "read"
    /\ log[2].ids = <<2>> /\ log[2].path = B /\ log[2].dir = "read"
    /\ log[3].ids = <<1>> /\ log[3].path = C /\ log[3].dir = "write"
    /\ log[4].ids = <<2>> /\ log[4].path = D /\ log[4].dir = "write"

\* C20 (no isolation): after P1 read(A), P2 read(B), P1 write(C), P2 write(D)
\* the edges are A->C and B->C and D has no inbound edge; and whenever a
\* write event creates edges, their sources are all the paths pending in
\* recent_reads, whichever pipeline read them, and the window is empty
\* afterwards.
SharedWindow ==
    /\ [](Interleaved => EdgePairs = {<<A, C>>, <<B, C>>})
    /\ [][(Calls("track_file") /\ Len(lineage') > Len(lineage))
          => (/\ {RowsWithId(datasets', lineage'[i].source_id)[1].filepath :
                     i \in (Len(lineage) + 1)..Len(lineage')}
                  = Range(recent_reads)
              /\ recent_reads' = <<>>)]_vars

\* the interleaving has happened and the write of P1 took the read of P2
SharedWindowWitness ==
    /\ Interleaved
    /\ log[3].added.lineage = 2 /\ log[4].added.lineage = 0
    /\ recent_reads = <<>>

\* C21 (unconditional clear): right after track_file has handled a write
\* event for an existing file, recent_reads is empty.
WriteClearsWindow ==
    (Len(log) > 0 /\ Processed(Last) /\ Last.dir = "write")
    => recent_reads = <<>>

\* C22 (cache hit): a handled write event for a path that is already in
\* tracked_files, with reads pending, adds no dataset, one operation and one
\* edge from every pending read.
CacheHitWriteStep ==
    [][(/\ Calls("track_file")
        /\ Processed(log'[Len(log')]) /\ log'[Len(log')].dir = "write"
        /\ absolute(log'[Len(log')].path) \in DOMAIN tracked_files
        /\ recent_reads # <<>>)
       => (/\ log'[Len(log')].added.datasets = 0
           /\ log'[Len(log')].added.operations = 1
           /\ log'[Len(log')].added.lineage = Len(recent_reads))]_vars

\* C23 (one operation per write): the operation rows are as many as the
\* write events for existing files that track_file has handled.
OperationPerWrite ==
    Len(operations)
        = Len(SelectSeq(log, LAMBDA e : Processed(e) /\ e.dir = "write"))

\* the last two events are read(c), write(d) for two files, both handled, and
\* a write of c was handled before them
RereadThenWrite ==
    /\ Len(log) >= 3
    /\ Processed(Last) /\ Last.dir = "write"
    /\ Processed(log[Len(log) - 1]) /\ log[Len(log) - 1].dir = "read"
    /\ absolute(Last.path) # absolute(log[Len(log) - 1].path)
    /\ \E i \in 1..(Len(log) - 2) :
           /\ Processed(log[i]) /\ log[i].dir = "write"
           /\ absolute(log[i].path) = absolute(log[Len(log) - 1].path)

\* C24 (chaining): for write(c) ... read(c), write(d) the read of c adds no
\* dataset and returns the id c got when it was written, and the write of d
\* adds an edge from that id to the dataset of d.
RereadChains ==
    RereadThenWrite
    => /\ log[Len(log) - 1].added.datasets = 0
       /\ \A i \in 1..(Len(log) - 2) :
              (/\ Processed(log[i])
               /\ absolute(log[i].path) = absolute(log[Len(log) - 1].path))
              => log[i].ret = log[Len(log) - 1].ret
       /\ \E k \in (Len(lineage) - Last.added.lineage + 1)..Len(lineage) :
              /\ lineage[k].source_id = log[Len(log) - 1].ret
              /\ lineage[k].target_id = Last.ret

Endpoints == {e[1] : e \in EdgePairs} \cup {e[2] : e \in EdgePairs}

\* C25 (label collapse): the graph just built has one node per distinct
\* basename among the endpoints of the stored edges and one edge per distinct
\* pair of basenames; files of the same name in two directories are one
\* node; the edges are at most as many as the rows of get_lineage_graph.
LabelCollapse ==
    (Len(log) > 0 /\ Last.op = "build")
    => /\ graph.nodes = {basename(p) : p \in Endpoints}
       /\ graph.edges = {<<basename(e[1]), basename(e[2])>> : e \in EdgePairs}
       /\ Cardinality(graph.edges) <= Len(get_lineage_graph(Cur))
       /\ {A, D} \subseteq Endpoints
              => Cardinality(graph.nodes) < Cardinality(Endpoints)

\* /d1/a.csv and /d2/a.csv are both endpoints, and two stored edges have
\* become one edge of the graph
LabelCollapseWitness ==
    /\ Len(log) > 0 /\ Last.op = "build"
    /\ {A, D} \subseteq Endpoints
    /\ Cardinality(graph.edges) < Len(get_lineage_graph(Cur))

(***************************************************************************)
(* Calls of the hooked library functions (hooks.py)                        *)
(***************************************************************************)
Url == "http://host/a.csv"  \* a string pandas reads that is no local path
Buffer == "<buffer>"        \* an object that is neither a string nor a file

\* what a caller passes: a string, an open file object (with .name) or a
\* buffer without a name
HookArgs ==
    [kind : {"str"}, path : {A, B, Url}]
    \cup {[kind |-> "file", path |-> A], [kind |-> "buffer", path |-> Buffer]}

\* the functions called in SpecHooks
CallNames == {<<"pd", "read_csv">>, <<"pd.DataFrame", "to_csv">>,
              <<"pickle", "load">>}

\* the operation_type the wrapper of n passes to track_file
hook_direction(n) ==
    IF n[2] \in {"read_csv", "read_parquet", "read_json", "read_excel",
                 "read_pickle", "load", "loadtxt"}
    THEN "read" ELSE "write"

\* os.path.exists
path_exists(fsys, p) == absolute(p) \in DOMAIN fsys /\ fsys[absolute(p)].exists

\* the original library function returns instead of raising
original_ok(n, arg, fsys) ==
    IF n[1] = "pickle"
    THEN arg.kind # "str"
         /\ (arg.kind = "file" => hash_file(fsys, arg.path) # NoHash)
    ELSE IF hook_direction(n) = "read"
    THEN arg.kind = "buffer" \/ (arg.kind = "str" /\ arg.path = Url)
         \/ hash_file(fsys, arg.path) # NoHash
    ELSE arg.kind = "str" => arg.path \in DOMAIN fsys

\* the file system after the original library function returned
original_effect(n, arg, fsys) ==
    IF hook_direction(n) = "write" /\ arg.path \in DOMAIN fsys
    THEN [fsys EXCEPT ![arg.path] =
             NewFile(IF @.exists /\ @.content = Content1 THEN Content2
                     ELSE Content1)]
    ELSE fsys

\* mutant: a read wrapper delivers its event without os.path.exists
hook_delivers_unchecked(n, arg, fsys, tracker) ==
    /\ tracker # None
    /\ IF n[1] = "pickle" THEN arg.kind = "file" ELSE arg.kind = "str"

\* the condition under which the wrapper of n calls _tracker.track_file:
\* "_tracker and isinstance(path, str)", for a read also os.path.exists(path);
\* "hasattr(file, 'name')" in the pickle wrappers
hook_delivers(n, arg, fsys, tracker) ==
    /\ tracker # None
    /\ IF n[1] = "pickle" THEN arg.kind = "file"
       ELSE IF hook_direction(n) = "read"
       THEN arg.kind = "str" /\ path_exists(fsys, arg.path)
       ELSE arg.kind = "str"

\* a call of the function v that attribute n is bound to: the original, or a
\* wrapper that calls the function it wraps and then delivers the event.
\* w = [s: the state of the tracker _tracker names, fs, originals and events:
\* how often the original ran and track_file was called, exc]
RECURSIVE call(_, _, _, _, _, _, _)
call(v, w, n, arg, fails, tracker, caller) ==
    IF Len(v) = 1
    THEN IF fails \/ ~original_ok(n, arg, w.fs)
         THEN [w EXCEPT !.originals = @ + 1, !.exc = "IOError"]
         ELSE [w EXCEPT !.originals = @ + 1,
                        !.fs = original_effect(n, arg, w.fs)]
    ELSE Then(call(v[2], w, n, arg, fails, tracker, caller), LAMBDA w1 :
         IF w1.exc # "none" THEN w1
         ELSE IF hook_delivers(n, arg, w1.fs, tracker)
         THEN Then(track_file(w1.s, w1.fs, arg.path, hook_direction(n), caller),
                   LAMBDA s1 : [w1 EXCEPT !.s = s1, !.events = @ + 1,
                                          !.exc = s1.exc])
         ELSE w1)

\* the script calls library attribute n with arg; fails: the original raises
\* for a reason outside the model (a parse error, a full disk).  The entry
\* keeps <<holder, attribute, kind of arg>> in srcs and <<runs of the
\* original, track_file calls, the tracker they went to>> in ids.
HookedCall(n, arg, fails, caller) ==
    /\ arg.kind = "file" => path_exists(fs, arg.path)
    /\ \E w \in {call(bound[n],
                      [s |-> IF hook_tracker = None THEN Cur ELSE On(hook_tracker),
                       fs |-> fs, originals |-> 0, events |-> 0, exc |-> "none"],
                      n, arg, fails, hook_tracker, caller)} :
           /\ fs' = w.fs
           /\ IF hook_tracker = None
              THEN UNCHANGED <<datasets, operations, lineage, nextId, runs,
                               tracked_files, recent_reads, recent_writes,
                               current_run_id, db_open, objs>>
              ELSE InstallStore(w.s) /\ InstallTracker(hook_tracker, w.s)
           /\ log' = Append(log, Entry("hooked_call", arg.path, hook_direction(n),
                                       <<n[1], n[2], arg.kind>>, <<>>,
                                       <<w.originals, w.events, hook_tracker>>,
                                       [w.s EXCEPT !.exc = w.exc]))
           /\ UNCHANGED <<clock, trackers, auto_tracker, hook_tracker,
                          original_functions, bound, graph>>

(***************************************************************************)
(* SpecHooks: a script starts and stops the session, enables the hooks and *)
(* calls hooked functions; /d1/b.csv does not exist at the start.          *)
(***************************************************************************)
InitHooks ==
    /\ fs = [p \in Files |-> IF p = B THEN MissingFile ELSE NewFile(Content1)]
    /\ datasets = <<>>
    /\ operations = <<>>
    /\ lineage = <<>>
    /\ tracked_files = EmptyMap
    /\ recent_reads = <<>>
    /\ recent_writes = <<>>
    /\ nextId = 1
    /\ InitSession
    /\ log = <<>>

NextHooks ==
    \/ Len(log) < MaxHookCalls /\ \E p \in ScriptPaths : StartTracking(p)
    \/ Len(log) < MaxHookCalls /\ StopTracking("completed")
    \/ Len(log) < MaxHookCalls /\ \E t \in {None} \cup (1..trackers) :
                                       EnableHooks(t)
    \/ Len(log) < MaxHookCalls /\ \E n \in CallNames, arg \in HookArgs,
                                       fails \in BOOLEAN, c \in ManualCallers :
                                       HookedCall(n, arg, fails, c)

SpecHooks == InitHooks /\ [][NextHooks]_vars


\* C26 (no event reaches a stopped session): a hooked call made while the
\* tracker the hooks name has been closed by stop_tracking calls track_file
\* zero times and does not fail on the closed store.
StoppedSessionSilent ==
    [][(Calls("hooked_call") /\ hook_tracker # None /\ auto_tracker = None
        /\ ~On(hook_tracker).db_open)
       => (log'[Len(log')].ids[2] = 0
           /\ log'[Len(log')].exc # "ProgrammingError")]_vars


\* C27 (every operation has edges): every operation row of the store is
\* referenced by at least one lineage row.
OperationsHaveEdges ==
    \A i \in 1..Len(operations) :
        \E j \in 1..Len(lineage) : lineage[j].operation_id = operations[i].id


\* the last entry of the log after a step
Made == log'[Len(log')]

\* a hooked call whose original raised delivered no event and changed nothing
\* of the trackers and the store
FailedCallSilent ==
    (Calls("hooked_call") /\ Made.exc = "IOError")
    => (Made.ids[1] = 1 /\ Made.ids[2] = 0
        /\ UNCHANGED <<datasets, operations, lineage, tracked_files,
                       recent_reads, recent_writes, nextId, runs,
                       current_run_id, db_open, objs, fs>>)

\* a write event is delivered after the original wrote: the file exists then
WriteSeen ==
    (Calls("hooked_call") /\ Made.dir = "write" /\ Made.ids[2] > 0)
    => path_exists(fs', Made.path)

\* C28 as stated (hooks deliver only after success): the original runs first,
\* a failed original delivers nothing and changes nothing, and every read hook
\* delivers only for a string path that exists.
HookAfterSuccess ==
    [][/\ FailedCallSilent
       /\ WriteSeen
       /\ (Calls("hooked_call") /\ Made.dir = "read" /\ Made.ids[2] > 0)
          => (Made.srcs[3] = "str" /\ path_exists(fs', Made.path))]_vars

\* C28 (amended): the same, where the pandas read hooks deliver only for a
\* string path that exists and the pickle.load hook delivers for a file object
\* that has a name.
HookAfterSuccessAmended ==
    [][/\ FailedCallSilent
       /\ WriteSeen
       /\ (Calls("hooked_call") /\ Made.dir = "read" /\ Made.ids[2] > 0)
          => IF Made.srcs[1] = "pickle" THEN Made.srcs[3] = "file"
             ELSE Made.srcs[3] = "str" /\ path_exists(fs', Made.path)]_vars

\* a session is active; one hooked call on a string path failed in the
\* original, and a pickle.load of an open file delivered its event
HookAfterSuccessWitness ==
    /\ \E i \in 1..Len(log) :
           /\ log[i].op = "hooked_call" /\ log[i].ids[3] # None
           /\ log[i].exc = "IOError" /\ log[i].srcs[3] = "str"
           /\ log[i].path = A
    /\ \E i \in 1..Len(log) :
           /\ log[i].op = "hooked_call" /\ log[i].ids[3] # None
           /\ log[i].srcs[1] = "pickle" /\ log[i].ids[2] = 1
           /\ log[i].exc = "none"


\* the calls so far that ran enable_hooks: enable_hooks itself and the
\* start_tracking calls that started a session (a start_tracking that found a
\* session active returns the tracker an earlier one returned)
EnablingCalls ==
    {i \in 1..Len(log) :
        \/ log[i].op = "enable_hooks"
        \/ /\ log[i].op = "start_tracking"
           /\ \A j \in 1..(i - 1) : ~(log[j].op = "start_tracking"
                                      /\ log[j].ret = log[i].ret)}

LastEnabling == CHOOSE i \in EnablingCalls : \A j \in EnablingCalls : j <= i

\* the wrapper's condition, read off the call and the file system after it
Qualifies(e) ==
    /\ e.exc # "IOError"
    /\ IF e.srcs[1] = "pickle" THEN e.srcs[3] = "file"
       ELSE e.srcs[3] = "str" /\ (e.dir = "read" => path_exists(fs', e.path))

\* C29 (no double wrap): once enable_hooks has run, however often and with
\* whichever trackers, a hooked call runs the original exactly once and calls
\* track_file exactly once when its wrapper's condition holds (never
\* otherwise), on the tracker of the most recent enable_hooks; the fields of
\* every other tracker object stay as they were.
NoDoubleWrap ==
    [][(Calls("hooked_call") /\ EnablingCalls # {})
       => /\ Made.ids[1] = 1
          /\ Made.ids[2] = (IF Qualifies(Made) THEN 1 ELSE 0)
          /\ Made.ids[3] = log[LastEnabling].ret
          /\ \A t \in DOMAIN objs : t # Made.ids[3] => objs'[t] = objs[t]
          /\ Made.ids[3] # 1 => UNCHANGED <<tracked_files, recent_reads,
                                           recent_writes, current_run_id,
                                           db_open>>]_vars

\* start_tracking enabled the hooks for its tracker, enable_hooks then named
\* the tracker of Init, and a hooked call delivered one event to that one
NoDoubleWrapWitness ==
    /\ Len(log) = 3
    /\ log[1].op = "start_tracking" /\ log[2].op = "enable_hooks"
    /\ log[2].ret = 1 /\ log[1].ret # 1
    /\ log[3].op = "hooked_call" /\ log[3].ids = <<1, 1, 1>>
    /\ A \in DOMAIN tracked_files
    /\ objs[log[1].ret].tracked_files = EmptyMap


\* C30 (a context that exits with an exception records nothing): when the
\* body of "with tracker.operation(...)" raised, __exit__ adds no operation,
\* dataset or edge, leaves tracked_files, recent_reads and recent_writes as
\* they were, and the exception of the body propagates.
RaisedContextSilent ==
    [][(Calls("operation") /\ Made.dir = "raised")
       => /\ Made.exc = "BodyError"
          /\ Made.added = [datasets |-> 0, operations |-> 0, lineage |-> 0]
          /\ UNCHANGED <<datasets, operations, lineage, nextId, tracked_files,
                         recent_reads, recent_writes>>]_vars

\* the body of a context with a readable input and a readable output, both
\* new to the tracker, raised
RaisedContextSilentWitness ==
    /\ Len(log) > 0
    /\ Last.op = "operation" /\ Last.dir = "raised"
    /\ Last.srcs = <<A>> /\ Last.tgts = <<C>>
    /\ FileOk(A) /\ FileOk(C)
    /\ ~is_tracked(Cur, A) /\ ~is_tracked(Cur, C)

====
